---- MODULE Spec2Model ----
(***************************************************************************)
(* LibraryAPI: the books table behind BookModel (Insert, Get, Update,      *)
(* Delete, GetAll) and the HTTP handlers of cmd/api/books.go that call it. *)
(*                                                                         *)
(* A Go string is a sequence of one-character strings (its bytes), a Go    *)
(* pointer field is a sequence of length 0 (nil) or 1, and a Go slice is a *)
(* record [isnil, elems].  A row of the books table is a record with the   *)
(* columns of migrations/000001_create_books_table.up.sql.  Each SQL       *)
(* statement is one atomic step; in Spec and SpecList the backing store is *)
(* taken to be reachable (no connection error, no timeout), and SpecCancel *)
(* is where the timeout of a store operation is modelled.  The text search *)
(* of the store compares words as they are written: the titles of the      *)
(* model use no English stop word and no inflected form.  SpecPages and    *)
(* SpecValidate apply the Pages codec and ValidateBook to drawn inputs.    *)
(***************************************************************************)
EXTENDS Integers, Sequences, FiniteSets, TLC

VARIABLES books, nextID, now, pc, held, last, nsteps, deleted, wins

vars == <<books, nextID, now, pc, held, last, nsteps, deleted, wins>>

(***************************************************************************)
(* Bounds of the model.                                                    *)
(***************************************************************************)
\* number of concurrent clients
NumProcs == 2
\* number of steps (handler round trips to the store, clock ticks) in one behaviour
MaxSteps == 4
\* number of rows ever inserted (the bigserial sequence stops there)
MaxID == 2
\* number of clock ticks; the year advances with each
MaxNow == 1
\* the calendar year at the start of a behaviour
BaseYear == 2025
\* highest version of the row the table holds at the start
MaxPersistedVersion == 2
\* number of rows of the table that is listed
MaxRows == 2
\* highest page asked for
MaxPage == 2
\* highest number of matching rows handed to calculateMetadata
MaxTotal == 100

Procs == 1 .. NumProcs

(***************************************************************************)
(* Strings.                                                                *)
(***************************************************************************)
Digits == <<"0", "1", "2", "3", "4", "5", "6", "7", "8", "9">>

IsDigit(c) == \E i \in 1 .. 10 : Digits[i] = c

DigitVal(c) == (CHOOSE i \in 1 .. 10 : Digits[i] = c) - 1

\* the bytes used in the model's strings in ascending byte order
Alphabet == <<" ", "+", "-", "0", "1", "2", "3", "4", "5", "6", "7", "8", "9", "a", "b", "c", "x", "y">>

Ord(c) == CHOOSE i \in 1 .. Len(Alphabet) : Alphabet[i] = c

RECURSIVE FormatInt(_)
FormatInt(n) == IF n < 0 THEN <<"-">> \o FormatInt(0 - n) ELSE IF n < 10 THEN <<Digits[n + 1]>> ELSE FormatInt(n \div 10) \o <<Digits[(n % 10) + 1]>>

RECURSIVE DigitsValue(_)
DigitsValue(s) == IF s = <<>> THEN 0 ELSE 10 * DigitsValue(SubSeq(s, 1, Len(s) - 1)) + DigitVal(s[Len(s)])

ParseInt(s) ==
  LET signed == s # <<>> /\ s[1] \in {"+", "-"}
      body == IF signed THEN Tail(s) ELSE s
  IN IF body = <<>> \/ \E i \in 1 .. Len(body) : ~IsDigit(body[i])
     THEN [ok |-> FALSE, val |-> 0]
     ELSE [ok |-> TRUE, val |-> IF signed /\ s[1] = "-" THEN 0 - DigitsValue(body) ELSE DigitsValue(body)]

\* s < t in byte order
RECURSIVE StrLess(_, _)
StrLess(s, t) ==
  IF t = <<>> THEN FALSE
  ELSE IF s = <<>> THEN TRUE
  ELSE IF s[1] # t[1] THEN Ord(s[1]) < Ord(t[1])
  ELSE StrLess(Tail(s), Tail(t))

HasPrefix(s, prefix) == Len(s) >= Len(prefix) /\ SubSeq(s, 1, Len(prefix)) = prefix

TrimPrefix(s, prefix) == IF HasPrefix(s, prefix) THEN SubSeq(s, Len(prefix) + 1, Len(s)) ELSE s

\* strings.Split(s, sep) for a separator of one byte
RECURSIVE Split(_, _)
Split(s, sep) ==
  IF ~(\E i \in 1 .. Len(s) : s[i] = sep) THEN <<s>>
  ELSE LET i == CHOOSE x \in 1 .. Len(s) : s[x] = sep /\ \A y \in 1 .. x - 1 : s[y] # sep
       IN <<SubSeq(s, 1, i - 1)>> \o Split(SubSeq(s, i + 1, Len(s)), sep)

Range(f) == {f[i] : i \in DOMAIN f}

(***************************************************************************)
(* Go values.                                                              *)
(***************************************************************************)
NilSlice == [isnil |-> TRUE, elems |-> <<>>]

Slice(s) == [isnil |-> FALSE, elems |-> s]

ErrNil == "nil"
ErrRecordNotFound == "record not found"
ErrEditConflict == "edit conflict"
ErrNotNull == "pq: null value violates not-null constraint"

(***************************************************************************)
(* internal/validator.                                                     *)
(***************************************************************************)
New == [k \in {} |-> ""]

Valid(v) == DOMAIN v = {}

AddError(v, key, message) == IF key \in DOMAIN v THEN v ELSE v @@ (key :> message)

Check(v, ok, key, message) == IF ~ok THEN AddError(v, key, message) ELSE v

Unique(values) == \A i, j \in 1 .. Len(values) : values[i] = values[j] => i = j

(***************************************************************************)
(* ValidateBook.                                                           *)
(***************************************************************************)
MinYear == 1888
MaxTitleBytes == 500
MinGenres == 1
MaxGenres == 5

CurrentYear(t) == BaseYear + t

\* ValidateBook without its check of validator.Unique
ValidateBook_SkipsUnique(v, book, t) ==
  LET v1 == Check(v, book.title # <<>>, "title", "must be provided")
      v2 == Check(v1, Len(book.title) <= MaxTitleBytes, "title", "must not be more than 500 bytes long")
      v3 == Check(v2, book.year # 0, "year", "must be provided")
      v4 == Check(v3, book.year >= MinYear, "year", "must be greater than 1888")
      v5 == Check(v4, book.year <= CurrentYear(t), "year", "must not be in the future")
      v6 == Check(v5, book.pages # 0, "pages", "must be provided")
      v7 == Check(v6, book.pages > 0, "pages", "must be a positive integer")
      v8 == Check(v7, ~book.genres.isnil, "genres", "must be provided")
      v9 == Check(v8, Len(book.genres.elems) >= MinGenres, "genres", "must contain at least 1 genre")
  IN Check(v9, Len(book.genres.elems) <= MaxGenres, "genres", "must not contain more than 5 genres")

\* ValidateBook that returns at the first check that fails
ValidateBook_ShortCircuit(v, book, t) ==
  IF book.title = <<>> THEN AddError(v, "title", "must be provided")
  ELSE IF Len(book.title) > MaxTitleBytes THEN AddError(v, "title", "must not be more than 500 bytes long")
  ELSE IF book.year = 0 THEN AddError(v, "year", "must be provided")
  ELSE IF book.year < MinYear THEN AddError(v, "year", "must be greater than 1888")
  ELSE IF book.year > CurrentYear(t) THEN AddError(v, "year", "must not be in the future")
  ELSE IF book.pages = 0 THEN AddError(v, "pages", "must be provided")
  ELSE IF book.pages <= 0 THEN AddError(v, "pages", "must be a positive integer")
  ELSE IF book.genres.isnil THEN AddError(v, "genres", "must be provided")
  ELSE IF Len(book.genres.elems) < MinGenres THEN AddError(v, "genres", "must contain at least 1 genre")
  ELSE IF Len(book.genres.elems) > MaxGenres THEN AddError(v, "genres", "must not contain more than 5 genres")
  ELSE IF ~Unique(book.genres.elems) THEN AddError(v, "genres", "must not contain duplicate values")
  ELSE v

\* ValidateBook without its two checks of book.Pages
ValidateBook_SkipsPages(v, book, t) ==
  LET v1 == Check(v, book.title # <<>>, "title", "must be provided")
      v2 == Check(v1, Len(book.title) <= MaxTitleBytes, "title", "must not be more than 500 bytes long")
      v3 == Check(v2, book.year # 0, "year", "must be provided")
      v4 == Check(v3, book.year >= MinYear, "year", "must be greater than 1888")
      v5 == Check(v4, book.year <= CurrentYear(t), "year", "must not be in the future")
      v8 == Check(v5, ~book.genres.isnil, "genres", "must be provided")
      v9 == Check(v8, Len(book.genres.elems) >= MinGenres, "genres", "must contain at least 1 genre")
      v10 == Check(v9, Len(book.genres.elems) <= MaxGenres, "genres", "must not contain more than 5 genres")
  IN Check(v10, Unique(book.genres.elems), "genres", "must not contain duplicate values")

ValidateBook(v, book, t) ==
  LET v1 == Check(v, book.title # <<>>, "title", "must be provided")
      v2 == Check(v1, Len(book.title) <= MaxTitleBytes, "title", "must not be more than 500 bytes long")
      v3 == Check(v2, book.year # 0, "year", "must be provided")
      v4 == Check(v3, book.year >= MinYear, "year", "must be greater than 1888")
      v5 == Check(v4, book.year <= CurrentYear(t), "year", "must not be in the future")
      v6 == Check(v5, book.pages # 0, "pages", "must be provided")
      v7 == Check(v6, book.pages > 0, "pages", "must be a positive integer")
      v8 == Check(v7, ~book.genres.isnil, "genres", "must be provided")
      v9 == Check(v8, Len(book.genres.elems) >= MinGenres, "genres", "must contain at least 1 genre")
      v10 == Check(v9, Len(book.genres.elems) <= MaxGenres, "genres", "must not contain more than 5 genres")
  IN Check(v10, Unique(book.genres.elems), "genres", "must not contain duplicate values")

(***************************************************************************)
(* BookModel: the SQL statements on the books table.                       *)
(***************************************************************************)
\* the zero value of the Book struct
ZeroBook == [id |-> 0, created |-> 0, title |-> <<>>, year |-> 0, pages |-> 0, genres |-> NilSlice, version |-> 0]

Insert(tbl, seq, t, book) ==
  IF book.genres.isnil
  THEN [books |-> tbl, book |-> book, err |-> ErrNotNull]
  ELSE LET row == [id |-> seq, created |-> t, title |-> book.title, year |-> book.year, pages |-> book.pages, genres |-> book.genres, version |-> 1]
       IN [books |-> tbl @@ (seq :> row), book |-> [book EXCEPT !.id = row.id, !.created = row.created, !.version = row.version], err |-> ErrNil]

\* Get with its guard off by one: id <= 1 instead of id < 1
Get_GuardOffByOne(tbl, id) ==
  IF id <= 1 THEN [book |-> <<>>, err |-> ErrRecordNotFound]
  ELSE IF ~(\E k \in DOMAIN tbl : tbl[k].id = id) THEN [book |-> <<>>, err |-> ErrRecordNotFound]
  ELSE [book |-> <<tbl[CHOOSE k \in DOMAIN tbl : tbl[k].id = id]>>, err |-> ErrNil]

Get(tbl, id) ==
  IF id < 1 THEN [book |-> <<>>, err |-> ErrRecordNotFound]
  ELSE IF ~(\E k \in DOMAIN tbl : tbl[k].id = id) THEN [book |-> <<>>, err |-> ErrRecordNotFound]
  ELSE [book |-> <<tbl[CHOOSE k \in DOMAIN tbl : tbl[k].id = id]>>, err |-> ErrNil]

\* Update without the version in its WHERE clause: WHERE id = $5
Update_IgnoresVersion(tbl, book) ==
  LET hit == {k \in DOMAIN tbl : tbl[k].id = book.id}
  IN IF hit = {} THEN [books |-> tbl, book |-> book, err |-> ErrEditConflict]
     ELSE LET k == CHOOSE x \in hit : TRUE
              row == [tbl[k] EXCEPT !.title = book.title, !.year = book.year, !.pages = book.pages, !.genres = book.genres, !.version = tbl[k].version + 1]
          IN [books |-> [tbl EXCEPT ![k] = row], book |-> [book EXCEPT !.version = row.version], err |-> ErrNil]

\* Update without version = version + 1 in its SET clause
Update_KeepsVersion(tbl, book) ==
  LET hit == {k \in DOMAIN tbl : tbl[k].id = book.id /\ tbl[k].version = book.version}
  IN IF hit = {} THEN [books |-> tbl, book |-> book, err |-> ErrEditConflict]
     ELSE LET k == CHOOSE x \in hit : TRUE
              row == [tbl[k] EXCEPT !.title = book.title, !.year = book.year, !.pages = book.pages, !.genres = book.genres]
          IN [books |-> [tbl EXCEPT ![k] = row], book |-> [book EXCEPT !.version = row.version], err |-> ErrNil]

\* Update that does not scan the returned version into book.Version
Update_ReturnsOldVersion(tbl, book) ==
  LET hit == {k \in DOMAIN tbl : tbl[k].id = book.id /\ tbl[k].version = book.version}
  IN IF hit = {} THEN [books |-> tbl, book |-> book, err |-> ErrEditConflict]
     ELSE LET k == CHOOSE x \in hit : TRUE
              row == [tbl[k] EXCEPT !.title = book.title, !.year = book.year, !.pages = book.pages, !.genres = book.genres, !.version = tbl[k].version + 1]
          IN [books |-> [tbl EXCEPT ![k] = row], book |-> book, err |-> ErrNil]

Update(tbl, book) ==
  LET hit == {k \in DOMAIN tbl : tbl[k].id = book.id /\ tbl[k].version = book.version}
  IN IF hit = {} THEN [books |-> tbl, book |-> book, err |-> ErrEditConflict]
     ELSE LET k == CHOOSE x \in hit : TRUE
              row == [tbl[k] EXCEPT !.title = book.title, !.year = book.year, !.pages = book.pages, !.genres = book.genres, !.version = tbl[k].version + 1]
          IN [books |-> [tbl EXCEPT ![k] = row], book |-> [book EXCEPT !.version = row.version], err |-> ErrNil]

\* Delete without its WHERE clause: DELETE FROM books
Delete_EveryRow(tbl, id) ==
  IF id < 1 THEN [books |-> tbl, err |-> ErrRecordNotFound]
  ELSE IF DOMAIN tbl = {} THEN [books |-> tbl, err |-> ErrRecordNotFound]
  ELSE [books |-> [k \in {} |-> ZeroBook], err |-> ErrNil]

Delete(tbl, id) ==
  IF id < 1 THEN [books |-> tbl, err |-> ErrRecordNotFound]
  ELSE LET hit == {k \in DOMAIN tbl : tbl[k].id = id}
       IN IF hit = {} THEN [books |-> tbl, err |-> ErrRecordNotFound]
          ELSE [books |-> [k \in DOMAIN tbl \ hit |-> tbl[k]], err |-> ErrNil]

(***************************************************************************)
(* Request inputs.                                                         *)
(***************************************************************************)
\* the :id parameter of the URL
IdParams == {FormatInt(i) : i \in 0 .. MaxID + 1} \cup {<<"x">>, <<"-", "1">>}

\* the X-Expected-Version header; <<>> is the absent header
Headers == {<<>>, <<"1">>, <<"2">>}

\* decoded bodies of POST /v1/books: two books that pass ValidateBook and one
\* body per rule of ValidateBook that fails it
CreateBodies(t) ==
  { [title |-> <<"b">>, year |-> MinYear, pages |-> 1, genres |-> Slice(<<<<"x">>>>)],
    [title |-> <<"c">>, year |-> CurrentYear(t), pages |-> 2, genres |-> Slice(<<<<"x">>, <<"y">>>>)],
    [title |-> <<>>, year |-> MinYear, pages |-> 1, genres |-> Slice(<<<<"x">>>>)],
    [title |-> <<"b">>, year |-> CurrentYear(t) + 1, pages |-> 1, genres |-> Slice(<<<<"x">>>>)],
    [title |-> <<"b">>, year |-> MinYear, pages |-> 0, genres |-> Slice(<<<<"x">>>>)],
    [title |-> <<"b">>, year |-> MinYear, pages |-> 1, genres |-> NilSlice] }

\* the body of PATCH /v1/books/:id that supplies no field
NoPatch == [title |-> <<>>, year |-> <<>>, pages |-> <<>>, genres |-> NilSlice]

\* decoded bodies of PATCH /v1/books/:id: every choice of supplied fields with
\* values that pass ValidateBook, and one body per field with a value that fails
PatchBodies ==
  [title : {<<>>, <<<<"c">>>>}, year : {<<>>, <<BaseYear>>}, pages : {<<>>, <<2>>}, genres : {NilSlice, Slice(<<<<"x">>, <<"y">>>>)}]
  \cup { [NoPatch EXCEPT !.title = <<<<>>>>],
         [NoPatch EXCEPT !.year = <<MinYear - 1>>],
         [NoPatch EXCEPT !.pages = <<0>>],
         [NoPatch EXCEPT !.genres = Slice(<<>>)] }

\* what readJSON hands to the handler: <<>> when it returns an error
Decoded(bodies) == {<<>>} \cup {<<b>> : b \in bodies}

(***************************************************************************)
(* Handlers of cmd/api/books.go.                                           *)
(***************************************************************************)
readID(param) ==
  LET r == ParseInt(param)
  IN IF ~r.ok \/ r.val < 1 THEN [id |-> 0, ok |-> FALSE] ELSE [id |-> r.val, ok |-> TRUE]

Response(op, id, in, status, body, errors) ==
  [op |-> op, id |-> id, in |-> in, status |-> status, book |-> body, errors |-> errors]

StatusOK == 200
StatusCreated == 201
StatusBadRequest == 400
StatusNotFound == 404
StatusConflict == 409
StatusUnprocessableEntity == 422
StatusInternalServerError == 500

Begin(p) == pc[p] = "idle" /\ nsteps < MaxSteps

\* the successful updates a row at version n has had: 1, 2, ..., n - 1
History(n) == [i \in 1 .. n - 1 |-> i]

\* The table as the server finds it when it starts: empty, or holding the
\* row of an earlier run, inserted as id 1 and now at version n.
PersistedRow(n) == [id |-> 1, created |-> 0, title |-> <<"b">>, year |-> MinYear, pages |-> 1, genres |-> Slice(<<<<"x">>>>), version |-> n]

Init ==
  /\ \E n \in 0 .. MaxPersistedVersion :
       /\ books = IF n = 0 THEN [k \in {} |-> ZeroBook] ELSE (1 :> PersistedRow(n))
       /\ nextID = IF n = 0 THEN 1 ELSE 2
       /\ wins = [i \in 1 .. MaxID |-> IF i = 1 /\ n > 0 THEN History(n) ELSE <<>>]
  /\ now = 0
  /\ pc = [p \in Procs |-> "idle"]
  /\ held = [p \in Procs |-> <<>>]
  /\ last = Response("none", 0, <<>>, 0, <<>>, New)
  /\ nsteps = 0
  /\ deleted = {}

createBookHandler(p, in) ==
  /\ Begin(p)
  /\ nsteps' = nsteps + 1
  /\ UNCHANGED <<now, pc, held, deleted, wins>>
  /\ IF in = <<>>
     THEN /\ last' = Response("create", 0, in, StatusBadRequest, <<>>, New)
          /\ UNCHANGED <<books, nextID>>
     ELSE LET book == [ZeroBook EXCEPT !.title = in[1].title, !.year = in[1].year, !.pages = in[1].pages, !.genres = in[1].genres]
              v == ValidateBook(New, book, now)
              r == Insert(books, nextID, now, book)
          IN IF ~Valid(v)
             THEN /\ last' = Response("create", 0, in, StatusUnprocessableEntity, <<>>, v)
                  /\ UNCHANGED <<books, nextID>>
             ELSE /\ nextID <= MaxID
                  /\ IF r.err # ErrNil
                     THEN /\ last' = Response("create", 0, in, StatusInternalServerError, <<>>, New)
                          /\ UNCHANGED <<books, nextID>>
                     ELSE /\ books' = r.books
                          /\ nextID' = nextID + 1
                          /\ last' = Response("create", r.book.id, in, StatusCreated, <<r.book>>, New)

getBookHandler(p, param) ==
  /\ Begin(p)
  /\ nsteps' = nsteps + 1
  /\ UNCHANGED <<books, nextID, now, pc, held, deleted, wins>>
  /\ LET rid == readID(param)
         r == Get(books, rid.id)
     IN IF ~rid.ok THEN last' = Response("get", rid.id, <<>>, StatusNotFound, <<>>, New)
        ELSE IF r.err = ErrRecordNotFound THEN last' = Response("get", rid.id, <<>>, StatusNotFound, <<>>, New)
        ELSE last' = Response("get", rid.id, <<>>, StatusOK, r.book, New)

\* updateBookHandler up to and including its Get
updateBookFetch(p, param) ==
  /\ Begin(p)
  /\ nsteps' = nsteps + 1
  /\ UNCHANGED <<books, nextID, now, deleted, wins>>
  /\ LET rid == readID(param)
         r == Get(books, rid.id)
     IN IF ~rid.ok \/ r.err = ErrRecordNotFound
        THEN /\ last' = Response("update", rid.id, <<>>, StatusNotFound, <<>>, New)
             /\ UNCHANGED <<pc, held>>
        ELSE /\ last' = Response("fetch", rid.id, <<>>, 0, r.book, New)
             /\ pc' = [pc EXCEPT ![p] = "fetched"]
             /\ held' = [held EXCEPT ![p] = r.book]

\* Merge without the copy of in.Year
Merge_DropsYear(book, in) ==
  [book EXCEPT !.title = IF in.title # <<>> THEN in.title[1] ELSE @,
               !.pages = IF in.pages # <<>> THEN in.pages[1] ELSE @,
               !.genres = IF ~in.genres.isnil THEN in.genres ELSE @]

\* the fetched book with the supplied fields of the body written over it
Merge(book, in) ==
  [book EXCEPT !.title = IF in.title # <<>> THEN in.title[1] ELSE @,
               !.year = IF in.year # <<>> THEN in.year[1] ELSE @,
               !.pages = IF in.pages # <<>> THEN in.pages[1] ELSE @,
               !.genres = IF ~in.genres.isnil THEN in.genres ELSE @]

\* updateBookHandler after its Get
updateBookWrite(p, header, in) ==
  /\ pc[p] = "fetched"
  /\ nsteps < MaxSteps
  /\ nsteps' = nsteps + 1
  /\ pc' = [pc EXCEPT ![p] = "idle"]
  /\ held' = [held EXCEPT ![p] = <<>>]
  /\ UNCHANGED <<nextID, now, deleted>>
  /\ LET fetched == held[p][1]
         id == fetched.id
     IN IF header # <<>> /\ FormatInt(fetched.version) # header
        THEN /\ last' = Response("update", id, <<>>, StatusConflict, <<>>, New)
             /\ UNCHANGED <<books, wins>>
        ELSE IF in = <<>>
        THEN /\ last' = Response("update", id, in, StatusBadRequest, <<>>, New)
             /\ UNCHANGED <<books, wins>>
        ELSE LET book == Merge(fetched, in[1])
                 v == ValidateBook(New, book, now)
                 r == Update(books, book)
             IN IF ~Valid(v)
                THEN /\ last' = Response("update", id, in, StatusUnprocessableEntity, <<>>, v)
                     /\ UNCHANGED <<books, wins>>
                ELSE IF r.err = ErrEditConflict
                THEN /\ last' = Response("update", id, in, StatusConflict, <<>>, New)
                     /\ UNCHANGED <<books, wins>>
                ELSE /\ books' = r.books
                     /\ wins' = [wins EXCEPT ![id] = Append(@, book.version)]
                     /\ last' = Response("update", id, in, StatusOK, <<r.book>>, New)

deleteBookHandler(p, param) ==
  /\ Begin(p)
  /\ nsteps' = nsteps + 1
  /\ UNCHANGED <<nextID, now, pc, held, wins>>
  /\ LET rid == readID(param)
         r == Delete(books, rid.id)
     IN IF ~rid.ok \/ r.err = ErrRecordNotFound
        THEN /\ last' = Response("delete", rid.id, <<>>, StatusNotFound, <<>>, New)
             /\ UNCHANGED <<books, deleted>>
        ELSE /\ books' = r.books
             /\ deleted' = deleted \cup {rid.id}
             /\ last' = Response("delete", rid.id, <<>>, StatusOK, <<>>, New)

\* the wall clock
Tick ==
  /\ now < MaxNow
  /\ nsteps < MaxSteps
  /\ now' = now + 1
  /\ nsteps' = nsteps + 1
  /\ UNCHANGED <<books, nextID, pc, held, last, deleted, wins>>

Next ==
  \/ \E p \in Procs, in \in Decoded(CreateBodies(now)) : createBookHandler(p, in)
  \/ \E p \in Procs, param \in IdParams : getBookHandler(p, param)
  \/ \E p \in Procs, param \in IdParams : updateBookFetch(p, param)
  \/ \E p \in Procs, header \in Headers, in \in Decoded(PatchBodies) : updateBookWrite(p, header, in)
  \/ \E p \in Procs, param \in IdParams : deleteBookHandler(p, param)
  \/ Tick

Spec == Init /\ [][Next]_vars

(***************************************************************************)
(* Properties of Spec.                                                     *)
(***************************************************************************)
\* a step of a handler (not of the clock) that ends with the response of op
Responds(op) == nsteps' # nsteps /\ now' = now /\ last'.op = op

\* the step of p that runs updateBookHandler from after its Get to its response
Writes(p) == pc[p] = "fetched" /\ pc'[p] = "idle"

\* no row of the table has both the id and the version of book
Stale(tbl, book) == ~(\E k \in DOMAIN tbl : tbl[k].id = book.id /\ tbl[k].version = book.version)

\* the books Update may be handed: the fetched copies in flight, also with
\* another version or another id
UpdateArgs ==
  UNION {{[held[p][1] EXCEPT !.version = n, !.id = i] : n \in 0 .. MaxPersistedVersion + MaxSteps, i \in 1 .. MaxID + 1} : p \in {q \in Procs : held[q] # <<>>}}

\* C1: Update(book), called when no stored row has both book.id and
\* book.version (a stale version, or a deleted row), returns EditConflict and
\* leaves every stored row as it was; the handler then answers 409 Conflict.
C1_StaleUpdateIsEditConflict ==
  /\ [](\A book \in UpdateArgs : Stale(books, book) => Update(books, book).err = ErrEditConflict /\ Update(books, book).books = books)
  /\ [][\A p \in Procs : Writes(p) /\ Stale(books, held[p][1]) =>
          /\ books' = books
          /\ last'.status \in {StatusConflict, StatusBadRequest, StatusUnprocessableEntity}
          /\ (last'.in # <<>> /\ Valid(ValidateBook(New, Merge(held[p][1], last'.in[1]), now)) => last'.status = StatusConflict)]_vars

\* the stored row is at version 3 and an Update carrying an older version was
\* answered with EditConflict
C1_Witness ==
  /\ last.op = "update" /\ last.status = StatusConflict /\ last.in # <<>>
  /\ last.id \in DOMAIN books /\ books[last.id].version = 3

\* C2: of the Update calls on one record that carry the same expected version
\* at most one succeeds, the stored version is then that version plus one, and
\* every other call still in flight with that version gets EditConflict.
C2_AtMostOneWinnerPerVersion ==
  /\ \A id \in 1 .. MaxID : Unique(wins[id])
  /\ \A id \in DOMAIN books : wins[id] # <<>> => books[id].version = wins[id][Len(wins[id])] + 1
  /\ (last.op = "update" /\ last.status = StatusOK) =>
       \A q \in Procs : (held[q] # <<>> /\ held[q][1].id = last.id /\ held[q][1].version = last.book[1].version - 1) =>
          /\ Update(books, held[q][1]).err = ErrEditConflict
          /\ Update(books, held[q][1]).books = books

\* one client has just won the update of a row while another still holds the
\* same row at the same version
C2_Witness ==
  /\ last.op = "update" /\ last.status = StatusOK
  /\ \E q \in Procs : held[q] # <<>> /\ held[q][1].id = last.id /\ held[q][1].version = last.book[1].version - 1

\* C3: the version of a stored row is 1 plus the number of successful updates
\* of the row; Insert gives version 1, a successful Update raises the version
\* by exactly 1 and returns it, and no other step changes a version.
C3_VersionCountsUpdates ==
  /\ [](\A id \in DOMAIN books : books[id].version = 1 + Len(wins[id]))
  /\ []((last.op = "create" /\ last.status = StatusCreated) => (last.book[1].version = 1 /\ books[last.id].version = 1))
  /\ []((last.op = "update" /\ last.status = StatusOK) => books[last.id].version = last.book[1].version)
  /\ [][\A id \in DOMAIN books \cap DOMAIN books' : books'[id].version # books[id].version =>
          /\ Responds("update") /\ last'.status = StatusOK /\ last'.id = id
          /\ books'[id].version = books[id].version + 1
          /\ wins'[id] = Append(wins[id], books[id].version)]_vars

\* a successful Update has returned version 3 for a row updated twice
C3_Witness ==
  /\ last.op = "update" /\ last.status = StatusOK /\ last.book[1].version = 3
  /\ last.id \in DOMAIN books /\ Len(wins[last.id]) = 2

\* the table without the row of id
Without(tbl, id) == [k \in DOMAIN tbl \ {id} |-> tbl[k]]

\* C4: Delete(id) returns NotFound and changes nothing when id < 1 or no row
\* has that id; otherwise it removes exactly that row, every later Get or
\* Delete of the id returns NotFound, and no new row ever gets the id.
C4_DeleteRemovesForGood ==
  /\ [](\A id \in -1 .. MaxID + 1 :
          IF id < 1 \/ id \notin DOMAIN books
          THEN Delete(books, id).err = ErrRecordNotFound /\ Delete(books, id).books = books
          ELSE Delete(books, id).err = ErrNil /\ Delete(books, id).books = Without(books, id))
  /\ [](deleted \cap DOMAIN books = {})
  /\ [][Responds("delete") =>
          IF last'.id < 1 \/ last'.id \notin DOMAIN books
          THEN last'.status = StatusNotFound /\ books' = books
          ELSE last'.status = StatusOK /\ books' = Without(books, last'.id)]_vars
  /\ [][(nsteps' # nsteps /\ now' = now /\ last'.op \in {"get", "delete", "update", "fetch"} /\ last'.id \in deleted) =>
          last'.status \in {StatusNotFound, StatusConflict, StatusBadRequest, StatusUnprocessableEntity} /\ books' = books]_vars
  /\ [][Responds("get") /\ last'.id \in deleted => last'.status = StatusNotFound]_vars

\* a row was deleted while another row stayed, and a later Get of the deleted
\* id was answered 404
C4_Witness ==
  /\ last.op = "get" /\ last.status = StatusNotFound /\ last.id \in deleted
  /\ books # <<>>

\* C5: Get(id) returns NotFound exactly when id < 1 or no row has the id;
\* otherwise it returns the row as stored, and it never changes the table.
C5_GetReturnsStoredRow ==
  /\ [](\A id \in -1 .. MaxID + 1 :
          IF id < 1 \/ id \notin DOMAIN books
          THEN Get(books, id) = [book |-> <<>>, err |-> ErrRecordNotFound]
          ELSE Get(books, id) = [book |-> <<books[id]>>, err |-> ErrNil])
  /\ [][Responds("get") =>
          /\ UNCHANGED <<books, nextID, deleted, wins>>
          /\ IF last'.id < 1 \/ last'.id \notin DOMAIN books
             THEN last'.status = StatusNotFound /\ last'.book = <<>>
             ELSE last'.status = StatusOK /\ last'.book = <<books[last'.id]>>]_vars
  /\ [][Responds("fetch") =>
          /\ UNCHANGED <<books, nextID, deleted, wins>>
          /\ last'.id \in DOMAIN books
          /\ \E p \in Procs : pc[p] = "idle" /\ pc'[p] = "fetched" /\ held'[p] = <<books[last'.id]>>]_vars

\* a Get returned a row as its last successful Update wrote it
C5_Witness ==
  /\ last.op = "get" /\ last.status = StatusOK
  /\ last.book[1].version = 2 /\ last.book[1].title = <<"c">> /\ last.book[1].id = 2

\* C6: a successful PATCH writes the supplied fields over the fetched book
\* and nothing else: a field that was not supplied keeps the fetched value,
\* and no update changes the id or the created time of a row.
C6_PatchWritesOnlySuppliedFields ==
  /\ [][\A p \in Procs : (Writes(p) /\ last'.status = StatusOK) =>
          LET fetched == held[p][1]
              in == last'.in[1]
              row == books'[fetched.id]
          IN /\ row.title = IF in.title # <<>> THEN in.title[1] ELSE fetched.title
             /\ row.year = IF in.year # <<>> THEN in.year[1] ELSE fetched.year
             /\ row.pages = IF in.pages # <<>> THEN in.pages[1] ELSE fetched.pages
             /\ row.genres = IF ~in.genres.isnil THEN in.genres ELSE fetched.genres
             /\ row.id = fetched.id /\ row.created = fetched.created
             /\ last'.book = <<row>>
             /\ \A k \in DOMAIN books \ {fetched.id} : k \in DOMAIN books' /\ books'[k] = books[k]]_vars
  /\ [][\A id \in DOMAIN books \cap DOMAIN books' : books'[id].id = books[id].id /\ books'[id].created = books[id].created]_vars

\* a PATCH that supplied the year and the genres, and neither title nor pages,
\* succeeded on a row whose title and pages differ from what a PATCH can set
C6_Witness ==
  /\ last.op = "update" /\ last.status = StatusOK
  /\ last.in[1].year # <<>> /\ ~last.in[1].genres.isnil /\ last.in[1].title = <<>> /\ last.in[1].pages = <<>>
  /\ last.book[1].title = <<"b">> /\ last.book[1].pages = 1 /\ last.book[1].year = BaseYear

(***************************************************************************)
(* Filters and Metadata (internal/data).                                   *)
(***************************************************************************)
MaxPageSize == 100

ValidateFilters(v, f) ==
  LET v1 == Check(v, f.page >= 1, "page", "must be greater than zero")
      v2 == Check(v1, f.pageSize >= 1, "page_size", "must be greater than zero")
      v3 == Check(v2, f.pageSize <= MaxPageSize, "page_size", "must be a maximum of 100")
  IN Check(v3, \E i \in 1 .. Len(f.sortSafelist) : f.sortSafelist[i] = f.sort, "sort", "invalid sort value")

sortColumn(f) == TrimPrefix(f.sort, <<"-">>)

sortDirection(f) == IF HasPrefix(f.sort, <<"-">>) THEN "DESC" ELSE "ASC"

limit(f) == f.pageSize

offset(f) == (f.page - 1) * f.pageSize

ZeroMetadata == [currentPage |-> 0, pageSize |-> 0, firstPage |-> 0, lastPage |-> 0, totalRecords |-> 0]

\* calculateMetadata with the division rounded down
calculateMetadata_RoundsDown(totalRecords, page, pageSize) ==
  IF totalRecords = 0 THEN ZeroMetadata
  ELSE [currentPage |-> page, pageSize |-> pageSize, firstPage |-> 1, lastPage |-> totalRecords \div pageSize, totalRecords |-> totalRecords]

calculateMetadata(totalRecords, page, pageSize) ==
  IF totalRecords = 0 THEN ZeroMetadata
  ELSE [currentPage |-> page, pageSize |-> pageSize, firstPage |-> 1, lastPage |-> (totalRecords + pageSize - 1) \div pageSize, totalRecords |-> totalRecords]

(***************************************************************************)
(* BookModel.GetAll.                                                       *)
(***************************************************************************)
\* the words of a text
Words(s) == {w \in Range(Split(s, " ")) : w # <<>>}

\* to_tsvector('english', title) @@ plainto_tsquery('english', $1) OR $1 = ''
TitleMatches(row, title) == title = <<>> \/ (Words(title) # {} /\ Words(title) \subseteq Words(row.title))

\* genres @> $2 OR $2 = '{}'
GenresMatch(row, genres) == genres.elems = <<>> \/ Range(genres.elems) \subseteq Range(row.genres.elems)

Matching(tbl, title, genres) == {tbl[k] : k \in {x \in DOMAIN tbl : TitleMatches(tbl[x], title) /\ GenresMatch(tbl[x], genres)}}

ColId == <<"i", "d">>
ColTitle == <<"t", "i", "t", "l", "e">>
ColYear == <<"y", "e", "a", "r">>
ColPages == <<"p", "a", "g", "e", "s">>

Columns == {ColId, ColTitle, ColYear, ColPages, <<"c", "r", "e", "a", "t", "e", "d">>, <<"g", "e", "n", "r", "e", "s">>, <<"v", "e", "r", "s", "i", "o", "n">>}

\* r sorts before o on the column; FALSE when they are equal on it
ColumnLess(r, o, column) ==
  IF column = ColTitle THEN StrLess(r.title, o.title)
  ELSE IF column = ColYear THEN r.year < o.year
  ELSE IF column = ColPages THEN r.pages < o.pages
  ELSE r.id < o.id

\* ORDER BY column direction, id DESC
Before_TieById_Desc(r, o, column, direction) ==
  IF ColumnLess(r, o, column) THEN direction = "ASC"
  ELSE IF ColumnLess(o, r, column) THEN direction = "DESC"
  ELSE r.id > o.id

\* ORDER BY column direction, id ASC
Before(r, o, column, direction) ==
  IF ColumnLess(r, o, column) THEN direction = "ASC"
  ELSE IF ColumnLess(o, r, column) THEN direction = "DESC"
  ELSE r.id < o.id

RECURSIVE OrderBy(_, _, _)
OrderBy(rows, column, direction) ==
  IF rows = {} THEN <<>>
  ELSE LET first == CHOOSE r \in rows : \A o \in rows \ {r} : Before(r, o, column, direction)
       IN <<first>> \o OrderBy(rows \ {first}, column, direction)

\* LIMIT n OFFSET m
LimitOffset(rows, n, m) == SubSeq(rows, m + 1, IF m + n < Len(rows) THEN m + n ELSE Len(rows))

GetAll(tbl, title, genres, filters) ==
  LET column == sortColumn(filters)
      direction == sortDirection(filters)
      matched == Matching(tbl, title, genres)
      rows == LimitOffset(OrderBy(matched, column, direction), limit(filters), offset(filters))
      \* count(*) OVER () comes with each returned row and with nothing else
      totalRecords == IF rows = <<>> THEN 0 ELSE Cardinality(matched)
  IN IF column \notin Columns
     THEN [books |-> <<>>, metadata |-> ZeroMetadata, err |-> "pq: column does not exist", query |-> <<column, direction>>]
     ELSE [books |-> rows, metadata |-> calculateMetadata(totalRecords, filters.page, filters.pageSize), err |-> ErrNil, query |-> <<column, direction>>]

(***************************************************************************)
(* listBooksHandler.                                                       *)
(***************************************************************************)
readString(s, defaultValue) == IF s = <<>> THEN defaultValue ELSE s

readCSV(csv, defaultValue) == IF csv = <<>> THEN defaultValue ELSE Slice(Split(csv, ","))

readInt(s, key, defaultValue, v) ==
  IF s = <<>> THEN [val |-> defaultValue, v |-> v]
  ELSE IF ~ParseInt(s).ok THEN [val |-> defaultValue, v |-> AddError(v, key, "must be an integer value")]
  ELSE [val |-> ParseInt(s).val, v |-> v]

DefaultPage == 1
DefaultPageSize == 20

SortSafelist == <<ColId, ColTitle, ColYear, ColPages, <<"-">> \o ColId, <<"-">> \o ColTitle, <<"-">> \o ColYear, <<"-">> \o ColPages>>

\* the Filters value the handler builds from the query string, and its Validator
ListInput(qs) ==
  LET page == readInt(qs.page, "page", DefaultPage, New)
      pageSize == readInt(qs.page_size, "page_size", DefaultPageSize, page.v)
      filters == [page |-> page.val, pageSize |-> pageSize.val, sort |-> readString(qs.sort, ColId), sortSafelist |-> SortSafelist]
  IN [title |-> readString(qs.title, <<>>), genres |-> readCSV(qs.genres, Slice(<<>>)), filters |-> filters, v |-> ValidateFilters(pageSize.v, filters)]

\* the handler goes on to GetAll although the Validator holds errors
ProceedsToStore_Always(v) == TRUE

ProceedsToStore(v) == Valid(v)

ListResponse(qs, status, errors, rows, metadata, query) ==
  [op |-> "list", in |-> qs, status |-> status, errors |-> errors, books |-> rows, metadata |-> metadata, query |-> query]

listBooksHandler(qs) ==
  /\ last.op = "none"
  /\ UNCHANGED <<books, nextID, now, pc, held, nsteps, deleted, wins>>
  /\ LET input == ListInput(qs)
         r == GetAll(books, input.title, input.genres, input.filters)
     IN IF ~ProceedsToStore(input.v)
        THEN last' = ListResponse(qs, StatusUnprocessableEntity, input.v, <<>>, ZeroMetadata, <<>>)
        ELSE IF r.err # ErrNil
        THEN last' = ListResponse(qs, StatusInternalServerError, New, <<>>, ZeroMetadata, r.query)
        ELSE last' = ListResponse(qs, StatusOK, New, r.books, r.metadata, r.query)

\* query strings of GET /v1/books; <<>> is the absent parameter
ListQueries ==
  [title : {<<>>, <<"b">>, <<"c", " ", "b">>},
   genres : {<<>>, <<"x">>, <<"x", ",", "y">>},
   page : {<<>>, <<"0">>, <<"x">>} \cup {FormatInt(i) : i \in 2 .. MaxPage},
   page_size : {<<>>, <<"0">>, <<"1">>, <<"2">>, FormatInt(MaxPageSize), FormatInt(MaxPageSize + 1)},
   sort : {<<>>, <<"-">> \o ColId, ColTitle, <<"-">> \o ColTitle, ColYear, <<"-">> \o ColYear, ColPages, <<"-">> \o ColPages,
           <<"c", "r", "e", "a", "t", "e", "d">>, <<"-", "-">> \o ColId, ColId \o <<";">>}]

\* what a row of the table may hold besides its id
Catalogue ==
  { [title |-> <<"b">>, year |-> MinYear, pages |-> 1, genres |-> Slice(<<<<"x">>>>)],
    [title |-> <<"c">>, year |-> MinYear, pages |-> 2, genres |-> Slice(<<<<"x">>, <<"y">>>>)],
    [title |-> <<"b", " ", "c">>, year |-> BaseYear, pages |-> 1, genres |-> Slice(<<<<"y">>, <<"x">>>>)] }

StoredRow(id, c) == [id |-> id, created |-> 0, title |-> c.title, year |-> c.year, pages |-> c.pages, genres |-> c.genres, version |-> 1]

\* the tables of up to MaxRows rows with ids in 1 .. MaxRows (a missing id
\* is a deleted row)
Tables == UNION {{[k \in ids |-> StoredRow(k, f[k])] : f \in [ids -> Catalogue]} : ids \in SUBSET (1 .. MaxRows)}

InitList ==
  /\ books \in Tables
  /\ nextID = MaxRows + 1
  /\ now = 0
  /\ pc = [p \in Procs |-> "idle"]
  /\ held = [p \in Procs |-> <<>>]
  /\ last = Response("none", 0, <<>>, 0, <<>>, New)
  /\ nsteps = 0
  /\ deleted = (1 .. MaxRows) \ DOMAIN books
  /\ wins = [i \in 1 .. MaxID |-> <<>>]

NextList == \E qs \in ListQueries : listBooksHandler(qs)

SpecList == InitList /\ [][NextList]_vars

(***************************************************************************)
(* calculateMetadata on its own.                                           *)
(***************************************************************************)
InitMeta ==
  /\ \E totalRecords \in 0 .. MaxTotal, page \in 1 .. MaxPage, pageSize \in 1 .. MaxPageSize :
       last = [op |-> "call", totalRecords |-> totalRecords, page |-> page, pageSize |-> pageSize, metadata |-> ZeroMetadata]
  /\ books = [k \in {} |-> ZeroBook]
  /\ nextID = 1
  /\ now = 0
  /\ pc = [p \in Procs |-> "idle"]
  /\ held = [p \in Procs |-> <<>>]
  /\ nsteps = 0
  /\ deleted = {}
  /\ wins = [i \in 1 .. MaxID |-> <<>>]

CallCalculateMetadata ==
  /\ last.op = "call"
  /\ last' = [last EXCEPT !.op = "return", !.metadata = calculateMetadata(last.totalRecords, last.page, last.pageSize)]
  /\ UNCHANGED <<books, nextID, now, pc, held, nsteps, deleted, wins>>

NextMeta == CallCalculateMetadata

SpecMeta == InitMeta /\ [][NextMeta]_vars

(***************************************************************************)
(* Properties of SpecList and SpecMeta.                                    *)
(***************************************************************************)
\* C7: the metadata of a list response has totalRecords equal to the number
\* of rows that match the title query and hold every genre of the filter,
\* whatever the page and the page size, also for a page after the last one.
C7_TotalRecordsCountsMatches ==
  (last.op = "list" /\ last.status = StatusOK) =>
     last.metadata.totalRecords = Cardinality(Matching(books, ListInput(last.in).title, ListInput(last.in).genres))

\* r and o are in the order of the sort parameter, ties by ascending id
InSortOrder(r, o, sort) ==
  LET column == IF sort = <<>> THEN ColId ELSE IF sort[1] = "-" THEN Tail(sort) ELSE sort
  IN IF ColumnLess(r, o, column) THEN (sort = <<>> \/ sort[1] # "-")
     ELSE IF ColumnLess(o, r, column) THEN (sort # <<>> /\ sort[1] = "-")
     ELSE r.id < o.id

\* the rows of pages k, k + 1, ..., n of a query, one after the other
RECURSIVE PagesFrom(_, _, _, _)
PagesFrom(tbl, input, k, n) ==
  IF k > n THEN <<>>
  ELSE GetAll(tbl, input.title, input.genres, [input.filters EXCEPT !.page = k]).books \o PagesFrom(tbl, input, k + 1, n)

\* C8: a list response holds at most pageSize rows in the order of the sort
\* column and direction, ties by ascending id; and pages 1, 2, ... of the
\* query over the same table are consecutive slices of that one order: no
\* row is on two pages and every matching row is on one.
C8_PagesSliceOneTotalOrder ==
  (last.op = "list" /\ last.status = StatusOK) =>
     LET input == ListInput(last.in)
         matched == Matching(books, input.title, input.genres)
         all == PagesFrom(books, input, 1, Cardinality(matched) + 1)
         size == input.filters.pageSize
         start == (input.filters.page - 1) * size
     IN /\ Len(last.books) <= size
        /\ \A i, j \in 1 .. Len(last.books) : i < j => InSortOrder(last.books[i], last.books[j], last.in.sort)
        /\ Len(all) = Cardinality(matched) /\ Range(all) = matched
        /\ \A i, j \in 1 .. Len(all) : i < j => InSortOrder(all[i], all[j], last.in.sort)
        /\ \A i \in 1 .. Len(last.books) : start + i <= Len(all) /\ last.books[i] = all[start + i]
        /\ Len(last.books) = IF Len(all) - start >= size THEN size ELSE IF Len(all) > start THEN Len(all) - start ELSE 0

\* page 2 of a listing by descending year, one row a page, holds the second
\* of two rows of the same year: the one with the higher id
C8_Witness ==
  /\ last.op = "list" /\ last.status = StatusOK
  /\ last.in.sort = <<"-">> \o ColYear /\ last.in.page = <<"2">> /\ last.in.page_size = <<"1">>
  /\ DOMAIN books = {1, 2} /\ books[1].year = books[2].year
  /\ last.books = <<books[2]>>

\* the query string asks for a page >= 1 (or none), a page size in 1 .. 100
\* (or none) and a sort of the safelist (or none)
WellFormedQuery(qs) ==
  /\ qs.page = <<>> \/ (ParseInt(qs.page).ok /\ ParseInt(qs.page).val >= 1)
  /\ qs.page_size = <<>> \/ (ParseInt(qs.page_size).ok /\ ParseInt(qs.page_size).val >= 1 /\ ParseInt(qs.page_size).val <= 100)
  /\ qs.sort \in {<<>>, <<"i", "d">>, <<"t", "i", "t", "l", "e">>, <<"y", "e", "a", "r">>, <<"p", "a", "g", "e", "s">>,
                  <<"-", "i", "d">>, <<"-", "t", "i", "t", "l", "e">>, <<"-", "y", "e", "a", "r">>, <<"-", "p", "a", "g", "e", "s">>}

\* C10: the list handler reaches the store only with page >= 1, page size in
\* 1 .. 100 and a sort of the safelist; any other query string is answered
\* 422 without a query; the ORDER BY column is one of id, title, year, pages
\* and the direction is DESC exactly when the sort begins with "-".
C10_OnlyValidatedFiltersReachTheStore ==
  last.op = "list" =>
     /\ last.query # <<>> <=> WellFormedQuery(last.in)
     /\ ~WellFormedQuery(last.in) => (last.status = StatusUnprocessableEntity /\ last.errors # New /\ last.books = <<>>)
     /\ last.query # <<>> =>
          /\ last.status = StatusOK
          /\ last.query[1] \in {<<"i", "d">>, <<"t", "i", "t", "l", "e">>, <<"y", "e", "a", "r">>, <<"p", "a", "g", "e", "s">>}
          /\ last.query[2] = IF last.in.sort # <<>> /\ last.in.sort[1] = "-" THEN "DESC" ELSE "ASC"

\* a sort outside the safelist, with page and page size in range, was answered
\* 422 with an error for sort alone and without a query
C10_Witness ==
  /\ last.op = "list" /\ last.status = StatusUnprocessableEntity
  /\ last.in.sort = <<"-", "-">> \o ColId /\ last.in.page = <<"2">> /\ last.in.page_size = FormatInt(MaxPageSize)
  /\ DOMAIN last.errors = {"sort"} /\ last.query = <<>>

\* C9: calculateMetadata returns the zero Metadata for totalRecords = 0, and
\* for totalRecords > 0 and pageSize in 1 .. 100 it returns currentPage =
\* page, the page size, firstPage = 1, lastPage = ceil(totalRecords /
\* pageSize) and totalRecords.
C9_MetadataOfTotalPageAndSize ==
  last.op = "return" =>
     IF last.totalRecords = 0
     THEN last.metadata = [currentPage |-> 0, pageSize |-> 0, firstPage |-> 0, lastPage |-> 0, totalRecords |-> 0]
     ELSE /\ last.metadata.currentPage = last.page
          /\ last.metadata.pageSize = last.pageSize
          /\ last.metadata.firstPage = 1
          /\ last.metadata.totalRecords = last.totalRecords
          /\ last.metadata.lastPage * last.pageSize >= last.totalRecords
          /\ (last.metadata.lastPage - 1) * last.pageSize < last.totalRecords

\* calculateMetadata(95, 2, 20) has returned lastPage 5
C9_Witness ==
  /\ last.op = "return" /\ last.totalRecords = 95 /\ last.page = 2 /\ last.pageSize = 20
  /\ last.metadata = [currentPage |-> 2, pageSize |-> 20, firstPage |-> 1, lastPage |-> 5, totalRecords |-> 95]

(***************************************************************************)
(* The Pages type: MarshalJSON and UnmarshalJSON.  A JSON value is the     *)
(* sequence of its bytes as the decoder hands it to UnmarshalJSON; the     *)
(* strings of the model hold no backslash.  Pages is an int64 in the code  *)
(* and an integer of PagesBits bits here, so that the least and the        *)
(* greatest value and their neighbours are among the inputs.               *)
(***************************************************************************)
\* width of Pages in bits
PagesBits == 7

MinPages == 0 - 2 ^ (PagesBits - 1)

MaxPages == 2 ^ (PagesBits - 1) - 1

ErrInvalidCountPagesFormat == "invalid count pages format"

PagesLiteral == <<"p", "a", "g", "e", "s">>

\* strconv.Quote of a string of printable ASCII without quote or backslash
Quote(s) == <<"\"">> \o s \o <<"\"">>

\* strconv.Unquote of a JSON value: a double-quoted string without escapes
Unquote(s) ==
  IF Len(s) < 2 \/ s[1] # "\"" \/ s[Len(s)] # "\"" THEN [ok |-> FALSE, val |-> <<>>]
  ELSE IF \E i \in 2 .. Len(s) - 1 : s[i] \in {"\"", "\n"} THEN [ok |-> FALSE, val |-> <<>>]
  ELSE [ok |-> TRUE, val |-> SubSeq(s, 2, Len(s) - 1)]

\* strconv.ParseInt(s, 10, bitSize): out of range is an error
ParseIntBits(s) ==
  LET r == ParseInt(s)
  IN IF r.ok /\ r.val >= MinPages /\ r.val <= MaxPages THEN r ELSE [ok |-> FALSE, val |-> 0]

\* MarshalJSON without strconv.Quote
MarshalJSON_Unquoted(p) == FormatInt(p) \o <<" ">> \o PagesLiteral

MarshalJSON(p) == Quote(FormatInt(p) \o <<" ">> \o PagesLiteral)

\* UnmarshalJSON that does not compare parts[1] with "pages"
UnmarshalJSON_AnyLiteral(p, jsVal) ==
  LET unquotedJsVal == Unquote(jsVal)
      parts == Split(unquotedJsVal.val, " ")
      i == ParseIntBits(parts[1])
  IN IF ~unquotedJsVal.ok THEN [p |-> p, err |-> ErrInvalidCountPagesFormat]
     ELSE IF Len(parts) # 2 THEN [p |-> p, err |-> ErrInvalidCountPagesFormat]
     ELSE IF ~i.ok THEN [p |-> p, err |-> ErrInvalidCountPagesFormat]
     ELSE [p |-> i.val, err |-> ErrNil]

UnmarshalJSON(p, jsVal) ==
  LET unquotedJsVal == Unquote(jsVal)
      parts == Split(unquotedJsVal.val, " ")
      i == ParseIntBits(parts[1])
  IN IF ~unquotedJsVal.ok THEN [p |-> p, err |-> ErrInvalidCountPagesFormat]
     ELSE IF Len(parts) # 2 \/ parts[2] # PagesLiteral THEN [p |-> p, err |-> ErrInvalidCountPagesFormat]
     ELSE IF ~i.ok THEN [p |-> p, err |-> ErrInvalidCountPagesFormat]
     ELSE [p |-> i.val, err |-> ErrNil]

\* the first tokens of the texts that are decoded
FirstTokens ==
  {FormatInt(n) : n \in MinPages - 1 .. MaxPages + 1}
    \cup {<<"+", "1">>, <<"0", "1">>, <<"-", "0">>, <<>>, <<"-">>, <<"x">>, <<"1", "x">>, <<"a", "b", "c">>}

\* the texts that are decoded: one token, two tokens a space or a tab apart,
\* and two tokens with a third or with space around them
PagesTexts ==
  FirstTokens \cup {PagesLiteral}
    \cup {t \o <<sep>> \o l : t \in FirstTokens, sep \in {" ", "\t"}, l \in {PagesLiteral, <<"p", "a", "g", "e">>}}
    \cup {<<"1", " ">> \o PagesLiteral \o <<" ", "x">>, <<" ", "1", " ">> \o PagesLiteral,
          <<"1", " ">> \o PagesLiteral \o <<" ">>, <<"1", " ", " ">> \o PagesLiteral,
          <<"1", " ">> \o PagesLiteral \o <<" ">> \o PagesLiteral}

\* the JSON values that are decoded: strings, numbers, null, true
JSONValues ==
  {Quote(t) : t \in PagesTexts}
    \cup {FormatInt(n) : n \in {0, 1, 42}}
    \cup {<<"n", "u", "l", "l">>, <<"t", "r", "u", "e">>}

\* the values the destination holds before it is decoded into
Destinations == {0, 7}

InitPages ==
  /\ books = <<>> /\ nextID = 1 /\ now = 0 /\ nsteps = 0
  /\ pc = [p \in Procs |-> "idle"] /\ held = [p \in Procs |-> <<>>]
  /\ deleted = {} /\ wins = [i \in 1 .. MaxID |-> <<>>]
  /\ \E d \in Destinations : last = [op |-> "new", p |-> d]

\* json.Marshal of a Pages value
CallMarshalJSON(n) ==
  /\ last.op = "new"
  /\ last' = [op |-> "marshal", p |-> n, dest |-> last.p, out |-> MarshalJSON(n)]
  /\ UNCHANGED <<books, nextID, now, pc, held, nsteps, deleted, wins>>

\* json.Unmarshal of a JSON value into a Pages variable
CallUnmarshalJSON(jsVal) ==
  /\ last.op \in {"new", "marshal"}
  /\ LET dest == IF last.op = "marshal" THEN last.dest ELSE last.p
         r == UnmarshalJSON(dest, jsVal)
     IN last' = [op |-> "unmarshal", in |-> jsVal, before |-> dest, p |-> r.p, err |-> r.err,
                 encoded |-> IF last.op = "marshal" /\ jsVal = last.out THEN <<last.p>> ELSE <<>>]
  /\ UNCHANGED <<books, nextID, now, pc, held, nsteps, deleted, wins>>

NextPages ==
  \/ \E n \in MinPages .. MaxPages : CallMarshalJSON(n)
  \/ \E jsVal \in JSONValues \cup (IF last.op = "marshal" THEN {last.out} ELSE {}) : CallUnmarshalJSON(jsVal)

SpecPages == InitPages /\ [][NextPages]_vars

(***************************************************************************)
(* Properties of SpecPages.                                                *)
(***************************************************************************)
Whitespace == {" ", "\t", "\n"}

\* the maximal runs of non-whitespace bytes of s, in order
RECURSIVE Tokens(_)
Tokens(s) ==
  IF s = <<>> THEN <<>>
  ELSE IF s[1] \in Whitespace THEN Tokens(Tail(s))
  ELSE LET n == CHOOSE k \in 1 .. Len(s) : (\A i \in 1 .. k : s[i] \notin Whitespace) /\ (k = Len(s) \/ s[k + 1] \in Whitespace)
       IN <<SubSeq(s, 1, n)>> \o Tokens(SubSeq(s, n + 1, Len(s)))

\* tok is an optional sign and one or more decimal digits
IsBase10(tok) ==
  LET ds == IF tok # <<>> /\ tok[1] \in {"+", "-"} THEN Tail(tok) ELSE tok
  IN ds # <<>> /\ \A i \in 1 .. Len(ds) : ds[i] \in {"0", "1", "2", "3", "4", "5", "6", "7", "8", "9"}

\* the integer that tok writes in base 10
RECURSIVE Base10Value(_)
Base10Value(tok) ==
  IF tok = <<>> THEN 0
  ELSE IF tok[1] = "-" THEN 0 - Base10Value(Tail(tok))
  ELSE IF tok[1] = "+" THEN Base10Value(Tail(tok))
  ELSE (CHOOSE d \in 0 .. 9 : FormatInt(d) = <<tok[Len(tok)]>>) + 10 * Base10Value(SubSeq(tok, 1, Len(tok) - 1))

\* jsVal is a JSON string of exactly two whitespace-separated tokens, the
\* second the literal pages and the first a base-10 integer
IsPagesString(jsVal) ==
  /\ Len(jsVal) >= 2 /\ jsVal[1] = "\"" /\ jsVal[Len(jsVal)] = "\""
  /\ LET toks == Tokens(SubSeq(jsVal, 2, Len(jsVal) - 1))
     IN Len(toks) = 2 /\ toks[2] = <<"p", "a", "g", "e", "s">> /\ IsBase10(toks[1])

\* C11: UnmarshalJSON succeeds only on a JSON string of exactly two
\* whitespace-separated tokens, the second the literal pages and the first
\* a base-10 integer, and then stores that integer; on every other value
\* (one token, another literal, a non-numeric first token, a third token or
\* content around the two, a JSON value that is no string) it returns
\* ErrInvalidCountPagesFormat and leaves the destination as it was.
C11_DecodeOnlyIntegerThenPages ==
  last.op = "unmarshal" =>
     /\ last.err \in {ErrNil, ErrInvalidCountPagesFormat}
     /\ last.err = ErrNil =>
          /\ IsPagesString(last.in)
          /\ last.p = Base10Value(Tokens(SubSeq(last.in, 2, Len(last.in) - 1))[1])
     /\ ~IsPagesString(last.in) => last.err = ErrInvalidCountPagesFormat
     /\ last.err # ErrNil => last.p = last.before

\* "42 page" was decoded into a destination holding 7: it failed with
\* ErrInvalidCountPagesFormat and the destination still holds 7
C11_Witness ==
  /\ last.op = "unmarshal" /\ last.in = <<"\"", "4", "2", " ", "p", "a", "g", "e", "\"">>
  /\ last.before = 7 /\ last.p = 7 /\ last.err = ErrInvalidCountPagesFormat

\* C12: MarshalJSON of n is the JSON string "<n> pages", and UnmarshalJSON
\* of that string succeeds and stores n, for every n of the type: negative,
\* zero, positive, the least and the greatest.
C12_RoundTripIsExact ==
  /\ last.op = "marshal" => last.out = <<"\"">> \o FormatInt(last.p) \o <<" ", "p", "a", "g", "e", "s", "\"">>
  /\ (last.op = "unmarshal" /\ last.encoded # <<>>) => (last.err = ErrNil /\ last.p = last.encoded[1])

\* the least value of the type was encoded and decoded back into a
\* destination that held another value
C12_Witness ==
  /\ last.op = "unmarshal" /\ last.encoded = <<MinPages>> /\ last.before # MinPages
  /\ last.p = MinPages /\ last.err = ErrNil

(***************************************************************************)
(* ValidateBook on its own: one call on a fresh Validator.                 *)
(***************************************************************************)
\* length of the longest genres slice that is validated
MaxGenreLen == 6
\* number of genre names in the slices of every arrangement
NumGenreNames == 3
\* length of the longest slice of every arrangement
MaxArrangedLen == 3

\* the genre names "1", "2", ...: pairwise distinct
GenreName(i) == FormatInt(i)

\* a title of n bytes
TitleOfLen(n) == [i \in 1 .. n |-> "b"]

\* genres slices: nil; every arrangement, with and without repeats, of a few
\* names up to a short length; and for each longer length a slice of distinct
\* names, one that repeats its first name at the end and one that repeats a
\* name side by side
GenreSlices ==
  {NilSlice}
    \cup {Slice(g) : g \in UNION {[1 .. n -> {GenreName(i) : i \in 1 .. NumGenreNames}] : n \in 0 .. MaxArrangedLen}}
    \cup {Slice([i \in 1 .. n |-> GenreName(i)]) : n \in 1 .. MaxGenreLen}
    \cup {Slice([i \in 1 .. n |-> IF i = n THEN GenreName(1) ELSE GenreName(i)]) : n \in 2 .. MaxGenreLen}
    \cup {Slice([i \in 1 .. n |-> IF i = n THEN GenreName(n - 1) ELSE GenreName(i)]) : n \in 2 .. MaxGenreLen}

\* the books that are validated at clock t
ValidateInputs(t) ==
  [id : {0}, created : {0}, version : {0},
   title : {TitleOfLen(0), TitleOfLen(1), TitleOfLen(MaxTitleBytes), TitleOfLen(MaxTitleBytes + 1)},
   year : {0 - 1, 0, MinYear - 1, MinYear, CurrentYear(t), CurrentYear(t) + 1},
   pages : {0 - 1, 0, 1},
   genres : GenreSlices]

InitValidate ==
  /\ books = <<>> /\ nextID = 1 /\ nsteps = 0
  /\ pc = [p \in Procs |-> "idle"] /\ held = [p \in Procs |-> <<>>]
  /\ deleted = {} /\ wins = [i \in 1 .. MaxID |-> <<>>]
  /\ now \in 0 .. MaxNow
  /\ \E book \in ValidateInputs(now) : last = [op |-> "call", book |-> book, errors |-> New]

\* v := validator.New(); ValidateBook(v, book); v.Errors
CallValidateBook ==
  /\ last.op = "call"
  /\ last' = [last EXCEPT !.op = "return", !.errors = ValidateBook(New, last.book, now)]
  /\ UNCHANGED <<books, nextID, now, pc, held, nsteps, deleted, wins>>

NextValidate == CallValidateBook

SpecValidate == InitValidate /\ [][NextValidate]_vars

(***************************************************************************)
(* Properties of SpecValidate.                                             *)
(***************************************************************************)
\* C13: ValidateBook reports no error named genres for a genres slice of 1
\* to 5 pairwise-distinct entries, and one error named genres for a slice
\* that is nil or empty, longer than 5, or holds a duplicate, also when
\* several of these hold at once.
C13_GenresErrorIffNotOneToFiveDistinct ==
  last.op = "return" =>
     LET g == last.book.genres
         distinct == \A i \in 1 .. Len(g.elems) : \A j \in i + 1 .. Len(g.elems) : g.elems[i] # g.elems[j]
         sound == ~g.isnil /\ Len(g.elems) >= 1 /\ Len(g.elems) <= 5 /\ distinct
     IN /\ sound => "genres" \notin DOMAIN last.errors
        /\ ~sound => ("genres" \in DOMAIN last.errors /\ Cardinality({k \in DOMAIN last.errors : k = "genres"}) = 1)

\* a slice of six genres with a duplicate among them was validated in an
\* otherwise sound book: the only error is the one named genres
C13_Witness ==
  /\ last.op = "return" /\ ~last.book.genres.isnil /\ Len(last.book.genres.elems) = 6
  /\ last.book.genres.elems[6] = last.book.genres.elems[1]
  /\ DOMAIN last.errors = {"genres"}

\* the names of the rules of the entity that book violates at clock t
ViolatedRules(book, t) ==
  {k \in {"title"} : Len(book.title) = 0 \/ Len(book.title) > 500}
    \cup {k \in {"year"} : book.year < 1888 \/ book.year > CurrentYear(t)}
    \cup {k \in {"pages"} : book.pages <= 0}
    \cup {k \in {"genres"} : \/ book.genres.isnil
                             \/ Len(book.genres.elems) < 1 \/ Len(book.genres.elems) > 5
                             \/ \E i, j \in 1 .. Len(book.genres.elems) : i # j /\ book.genres.elems[i] = book.genres.elems[j]}

\* C14: one call of ValidateBook applies the rules for title, year, pages
\* and genres each on its own, none skipped because another failed: the
\* errors it leaves in the Validator are named exactly by the rules the book
\* violates, one error with a message for each.
C14_EveryViolatedRuleReportedOnce ==
  last.op = "return" =>
     /\ DOMAIN last.errors = ViolatedRules(last.book, now)
     /\ \A k \in DOMAIN last.errors : last.errors[k] # ""

\* a book that violates all four rules was validated and all four errors
\* were reported by the one call
C14_Witness ==
  /\ last.op = "return"
  /\ last.book.title = <<>> /\ last.book.year = CurrentYear(now) + 1 /\ last.book.pages = 0 - 1 /\ last.book.genres = Slice(<<>>)
  /\ DOMAIN last.errors = {"title", "year", "pages", "genres"}

(***************************************************************************)
(* The context of a store operation.  Each method of BookModel builds its  *)
(* context with context.WithTimeout(context.Background(), 3*time.Second)   *)
(* and hands it to database/sql; the request and its context are not among *)
(* the arguments of the method.  Here the clock now counts seconds, the    *)
(* statement of an operation in flight executes in one step at some second *)
(* before its context is done, and the client may go away at any moment.   *)
(***************************************************************************)
\* seconds of the timeout of a store operation
StoreTimeout == 3
\* seconds the clock runs
MaxClock == 4
\* number of store operations begun in one behaviour
MaxCalls == 2

\* the parent of the context of a store operation
StoreContextParent == "Background"

\* the calls the handlers make on BookModel
StoreCalls ==
  { [op |-> "Insert", book |-> [ZeroBook EXCEPT !.title = <<"c">>, !.year = MinYear, !.pages = 2, !.genres = Slice(<<<<"y">>>>)]],
    [op |-> "Get", id |-> 1],
    [op |-> "Update", book |-> [PersistedRow(1) EXCEPT !.title = <<"c">>]],
    [op |-> "Delete", id |-> 1],
    [op |-> "GetAll", title |-> <<>>, genres |-> Slice(<<>>),
     filters |-> [page |-> 1, pageSize |-> DefaultPageSize, sort |-> ColId, sortSafelist |-> SortSafelist]] }

\* ctx.Done() is closed: the deadline has passed, or the parent is done
ContextDone(c, t) ==
  \/ t >= c.deadline
  \/ StoreContextParent = "Request" /\ c.requestCancelled

\* the statement of call c on the table
Execute(tbl, seq, t, c) ==
  IF c.op = "Insert" THEN LET r == Insert(tbl, seq, t, c.book) IN [books |-> r.books, err |-> r.err]
  ELSE IF c.op = "Get" THEN [books |-> tbl, err |-> Get(tbl, c.id).err]
  ELSE IF c.op = "Update" THEN LET r == Update(tbl, c.book) IN [books |-> r.books, err |-> r.err]
  ELSE IF c.op = "Delete" THEN LET r == Delete(tbl, c.id) IN [books |-> r.books, err |-> r.err]
  ELSE [books |-> tbl, err |-> GetAll(tbl, c.title, c.genres, c.filters).err]

InitCancel ==
  /\ books = (1 :> PersistedRow(1)) /\ nextID = 2 /\ now = 0 /\ nsteps = 0
  /\ pc = [p \in Procs |-> "idle"] /\ held = [p \in Procs |-> <<>>]
  /\ deleted = {} /\ wins = [i \in 1 .. MaxID |-> <<>>]
  /\ last = [op |-> "none", requestCancelled |-> FALSE, elapsed |-> 0, outcome |-> "none", err |-> ErrNil]

\* a handler calls a method of BookModel: the context is built and the
\* statement is sent
StartStoreOp(p, c) ==
  /\ pc[p] = "idle"
  /\ nsteps < MaxCalls
  /\ c.op = "Insert" => nextID <= MaxID
  /\ nsteps' = nsteps + 1
  /\ pc' = [pc EXCEPT ![p] = "inflight"]
  /\ held' = [held EXCEPT ![p] = <<[call |-> c, started |-> now, deadline |-> now + StoreTimeout, requestCancelled |-> FALSE]>>]
  /\ UNCHANGED <<books, nextID, now, last, deleted, wins>>

\* the client goes away: the context of the request is cancelled
CancelRequest(p) ==
  /\ pc[p] = "inflight"
  /\ ~held[p][1].requestCancelled
  /\ held' = [held EXCEPT ![p][1].requestCancelled = TRUE]
  /\ UNCHANGED <<books, nextID, now, pc, last, nsteps, deleted, wins>>

\* the store executes the statement and the method returns its result
CompleteStoreOp(p) ==
  /\ pc[p] = "inflight"
  /\ ~ContextDone(held[p][1], now)
  /\ LET c == held[p][1]
         r == Execute(books, nextID, now, c.call)
     IN /\ books' = r.books
        /\ nextID' = IF c.call.op = "Insert" /\ r.err = ErrNil THEN nextID + 1 ELSE nextID
        /\ last' = [op |-> c.call.op, requestCancelled |-> c.requestCancelled, elapsed |-> now - c.started,
                    outcome |-> "completed", err |-> r.err]
  /\ pc' = [pc EXCEPT ![p] = "idle"]
  /\ held' = [held EXCEPT ![p] = <<>>]
  /\ UNCHANGED <<now, nsteps, deleted, wins>>

\* the context is done before the statement has executed: database/sql
\* abandons the statement and the method returns the error of the context
AbortStoreOp(p) ==
  /\ pc[p] = "inflight"
  /\ ContextDone(held[p][1], now)
  /\ LET c == held[p][1]
     IN last' = [op |-> c.call.op, requestCancelled |-> c.requestCancelled, elapsed |-> now - c.started,
                 outcome |-> "aborted", err |-> IF now >= c.deadline THEN "context deadline exceeded" ELSE "context canceled"]
  /\ pc' = [pc EXCEPT ![p] = "idle"]
  /\ held' = [held EXCEPT ![p] = <<>>]
  /\ UNCHANGED <<books, nextID, now, nsteps, deleted, wins>>

\* a second passes
Second ==
  /\ now < MaxClock
  /\ now' = now + 1
  /\ UNCHANGED <<books, nextID, pc, held, last, nsteps, deleted, wins>>

NextCancel ==
  \/ \E p \in Procs, c \in StoreCalls : StartStoreOp(p, c)
  \/ \E p \in Procs : CancelRequest(p)
  \/ \E p \in Procs : CompleteStoreOp(p)
  \/ \E p \in Procs : AbortStoreOp(p)
  \/ Second

SpecCancel == InitCancel /\ [][NextCancel]_vars

(***************************************************************************)
(* Properties of SpecCancel.                                               *)
(***************************************************************************)
\* C15: every store operation runs under the fixed timeout: none completes
\* once StoreTimeout seconds have passed since it began; and when the client
\* cancels the request while the operation is in flight, the operation is
\* aborted: no operation completes for a request that was cancelled.
C15_CancelledRequestAbortsStoreOp ==
  last.outcome = "completed" => (last.elapsed < StoreTimeout /\ ~last.requestCancelled)

(***************************************************************************)
(* Properties of Spec: concurrent requests.                                *)
(***************************************************************************)
\* the row that p fetched is still stored exactly as p fetched it
Unchanged(p) == held[p][1].id \in DOMAIN books /\ books[held[p][1].id] = held[p][1]

\* C16: in every interleaving of update requests (a Get, then a conditional
\* Update) with each other and with deletes and creates, an update that
\* succeeds finds the row exactly as it fetched it and leaves it with the
\* supplied fields replaced and the version one higher, every other row as
\* it was; an update whose row was changed or deleted since its fetch
\* writes nothing, is answered 409 when its body would have been written,
\* and does not bring a deleted row back.
C16_NoLostUpdate ==
  [][\A p \in Procs : Writes(p) =>
       LET fetched == held[p][1]
       IN /\ last'.status = StatusOK =>
               /\ Unchanged(p)
               /\ books' = [books EXCEPT ![fetched.id] = [Merge(fetched, last'.in[1]) EXCEPT !.version = fetched.version + 1]]
          /\ ~Unchanged(p) =>
               /\ books' = books
               /\ last'.status \in {StatusConflict, StatusBadRequest, StatusUnprocessableEntity}
               /\ (last'.in # <<>> /\ Valid(ValidateBook(New, Merge(fetched, last'.in[1]), now))) => last'.status = StatusConflict
          /\ fetched.id \notin DOMAIN books => fetched.id \notin DOMAIN books']_vars

\* two requests fetched the row with title "b"; one wrote the title "c"; the
\* other, which supplied another field and not the title, was answered 409
\* and the title "c" is still stored
C16_Witness ==
  /\ last.op = "update" /\ last.status = StatusConflict
  /\ last.in # <<>> /\ last.in[1].title = <<>> /\ last.in[1].year # <<>>
  /\ last.id \in DOMAIN books /\ books[last.id].title = <<"c">>

\* row satisfies the rules of the entity at clock t
SoundRow(row, t) ==
  /\ Len(row.title) >= 1 /\ Len(row.title) <= 500
  /\ row.year >= 1888 /\ row.year <= CurrentYear(t)
  /\ row.pages > 0
  /\ ~row.genres.isnil /\ Len(row.genres.elems) \in 1 .. 5
  /\ \A i, j \in 1 .. Len(row.genres.elems) : i # j => row.genres.elems[i] # row.genres.elems[j]

\* the book createBookHandler builds from a decoded body
BookOf(in) == [ZeroBook EXCEPT !.title = in.title, !.year = in.year, !.pages = in.pages, !.genres = in.genres]

\* C17: after any interleaving of create, update and delete requests every
\* stored row satisfies the rules of the entity (title of 1 to 500 bytes,
\* 1888 <= year <= current year, pages > 0, 1 to 5 pairwise-distinct
\* genres); a create or an update whose book violates a rule is answered
\* 422 and writes nothing: no row is added, changed or removed and no id is
\* used up.
C17_StoredRowsAreValid ==
  /\ [](\A id \in DOMAIN books : books[id].id = id /\ SoundRow(books[id], now))
  /\ [][(Responds("create") /\ last'.in # <<>> /\ ViolatedRules(BookOf(last'.in[1]), now) # {}) =>
          (last'.status = StatusUnprocessableEntity /\ books' = books /\ nextID' = nextID)]_vars
  /\ [][\A p \in Procs : (Writes(p) /\ last'.in # <<>> /\ ViolatedRules(Merge(held[p][1], last'.in[1]), now) # {}) =>
          (last'.status = StatusUnprocessableEntity /\ books' = books /\ nextID' = nextID)]_vars
  /\ [][last'.status = StatusUnprocessableEntity => (books' = books /\ nextID' = nextID)]_vars

\* a PATCH that set pages to 0 was answered 422 with the one error for
\* pages, and the row still has the pages it had
C17_Witness ==
  /\ last.op = "update" /\ last.status = StatusUnprocessableEntity
  /\ last.in # <<>> /\ last.in[1].pages = <<0>> /\ DOMAIN last.errors = {"pages"}
  /\ last.id \in DOMAIN books /\ books[last.id].pages = 1

====
